---- MODULE Spec2Model ----
(***************************************************************************)
(* TitanicAnalyzer (src/titanic_analysis.py) as a state machine.           *)
(*                                                                         *)
(* A record set (a pandas DataFrame) is a record                           *)
(*   [columns, rows, categories]:                                          *)
(*   columns    the labels of the columns the frame has,                   *)
(*   rows       a sequence of rows, each a record over AllColumns; a       *)
(*              column the frame does not have holds Missing(c) in every   *)
(*              row, so that two rows are equal exactly when they agree on *)
(*              the columns the frame has,                                 *)
(*   categories for each column of categorical dtype, its categories.      *)
(*                                                                         *)
(* Units.  Age holds half-years (2 * years): the median of two whole ages  *)
(* is then a whole number.  Fare holds the fare as loaded; quartile edges  *)
(* are held as 4 * edge (pandas interpolates quartiles linearly, so        *)
(* 4 * edge is whole).  A survival rate  mean * 100  is held as the        *)
(* fraction num / den, or as the NaN marker.                               *)
(*                                                                         *)
(* pandas behaves as its 2.x releases do: fillna(inplace=True) on a column  *)
(* writes through to the frame, and groupby on a categorical column lists  *)
(* every category (observed=False).                                        *)
(***************************************************************************)
EXTENDS Integers, Sequences, FiniteSets, TLC

\* ------------------------------------------------------------------------
\* Values and columns
\* ------------------------------------------------------------------------

\* The missing value of a numeric column (NaN).
NaN == -1

\* The missing value of a text or categorical column.
NaS == "NaN"

\* The missing value of the Name column (a name is a sequence of tokens).
NoName == << >>

RawColumns ==
    {"PassengerId", "Survived", "Pclass", "Name", "Sex", "Age", "SibSp",
     "Parch", "Fare", "Cabin", "Embarked"}

DerivedColumns == {"FamilySize", "IsAlone", "Title", "AgeGroup", "FareGroup"}

AllColumns == RawColumns \cup DerivedColumns

TextColumns == {"Sex", "Cabin", "Embarked", "Title", "AgeGroup", "FareGroup"}

Missing(c) ==
    IF c = "Name" THEN NoName ELSE IF c \in TextColumns THEN NaS ELSE NaN

IsNull(c, v) == v = Missing(c)

\* Python's order of the port and sex labels (sorted categories).
Alphabetical == <<"C", "Q", "S", "female", "male">>

\* ------------------------------------------------------------------------
\* Sequence helpers
\* ------------------------------------------------------------------------

RECURSIVE InsertSorted(_, _)
InsertSorted(x, s) ==
    IF s = << >> THEN <<x>>
    ELSE IF x <= Head(s) THEN <<x>> \o s
    ELSE <<Head(s)>> \o InsertSorted(x, Tail(s))

RECURSIVE SortAsc(_)
SortAsc(s) == IF s = << >> THEN << >> ELSE InsertSorted(Head(s), SortAsc(Tail(s)))

\* The rows at the positions of keep, in order.
RECURSIVE Take(_, _, _)
Take(rows, keep, i) ==
    IF i > Len(rows) THEN << >>
    ELSE (IF i \in keep THEN <<rows[i]>> ELSE << >>) \o Take(rows, keep, i + 1)

\* The values v(i) for the positions i of idx, in order of position.
RECURSIVE Collect(_, _, _, _)
Collect(rows, c, idx, i) ==
    IF i > Len(rows) THEN << >>
    ELSE (IF i \in idx THEN <<rows[i][c]>> ELSE << >>) \o Collect(rows, c, idx, i + 1)

\* NullCount as it would be with notnull() for isnull().
NotNullCount(df, c) == Cardinality({i \in 1..Len(df.rows) : ~IsNull(c, df.rows[i][c])})

\* Series.isnull().sum().
NullCount(df, c) == Cardinality({i \in 1..Len(df.rows) : IsNull(c, df.rows[i][c])})

\* df with column c set to vals[i] in row i (added when df has no column c).
SetColumn(df, c, vals) ==
    [df EXCEPT !.columns = @ \cup {c},
               !.rows = [i \in 1..Len(df.rows) |-> [df.rows[i] EXCEPT ![c] = vals[i]]]]

\* ------------------------------------------------------------------------
\* Files: pd.read_csv and DataFrame.to_csv
\* ------------------------------------------------------------------------

NoCategories == [c \in {} |-> {}]

\* to_csv(index=False): the header and the cells; dtypes are not written.
to_csv(df) == [columns |-> df.columns, rows |-> df.rows]

\* read_csv: every column comes back with a plain dtype.
read_csv(csv) == [columns |-> csv.columns, rows |-> csv.rows, categories |-> NoCategories]

\* ------------------------------------------------------------------------
\* clean_data, step by step.  A run is [df, raised, log]: the frame so far,
\* the exception that ended the run ("" while none has), and what the run
\* printed.  A step of a run that has raised does nothing.
\* ------------------------------------------------------------------------

NoLog ==
    [duplicates_removed |-> 0, age_nulls |-> 0, embarked_nulls |-> 0,
     cabin_dropped |-> FALSE, remaining_nulls |-> 0]

\* DataFrame.drop_duplicates: the first of each set of equal rows is kept.
drop_duplicates(rows) ==
    Take(rows, {i \in 1..Len(rows) : \A j \in 1..(i - 1) : rows[j] # rows[i]}, 1)

\* Series.astype("category"): the categories are the values present.
astype_category(df, c) ==
    [df EXCEPT !.categories =
        (c :> {df.rows[i][c] : i \in {j \in 1..Len(df.rows) : ~IsNull(c, df.rows[j][c])}}) @@ @]

\* Twice Series.median: the middle value, or the mean of the two middle
\* values; NaN of no values.
median2(vals) ==
    LET s == SortAsc(vals)
        n == Len(s)
    IN  IF n = 0 THEN NaN
        ELSE IF n % 2 = 1 THEN 2 * s[(n + 1) \div 2]
        ELSE s[n \div 2] + s[n \div 2 + 1]

\* Series.median of values that are even numbers (whole years, in half-years).
median(vals) == IF vals = << >> THEN NaN ELSE median2(vals) \div 2

\* age_median as it would be with the ages grouped by class alone.
age_median_by_class(rows, i) ==
    median(Collect(rows, "Age",
                   {j \in 1..Len(rows) : rows[j].Pclass = rows[i].Pclass /\ rows[j].Age # NaN}, 1))

\* groupby(["Pclass", "Sex"])["Age"].transform("median"), for row i.
age_median(rows, i) ==
    median(Collect(rows, "Age",
                   {j \in 1..Len(rows) : /\ rows[j].Pclass = rows[i].Pclass
                                         /\ rows[j].Sex = rows[i].Sex
                                         /\ rows[j].Age # NaN}, 1))

\* Series.fillna(value per row): a missing cell takes the value of its row.
fillna(df, c, vals) ==
    SetColumn(df, c, [i \in 1..Len(df.rows) |->
                        IF IsNull(c, df.rows[i][c]) THEN vals[i] ELSE df.rows[i][c]])

\* mode as it would be with the most frequent values in the order they are
\* first met down the column.
mode_unsorted(rows, c) ==
    LET present == {i \in 1..Len(rows) : ~IsNull(c, rows[i][c])}
        count(v) == Cardinality({i \in present : rows[i][c] = v})
        top == {i \in present : /\ \A j \in present : count(rows[j][c]) <= count(rows[i][c])
                                /\ \A j \in 1..(i - 1) : rows[j][c] # rows[i][c]}
    IN  Collect(rows, c, top, 1)

\* Series.mode(): the most frequent values, sorted; none of an all-missing column.
mode(rows, c) ==
    LET present == {i \in 1..Len(rows) : ~IsNull(c, rows[i][c])}
        count(v) == Cardinality({i \in present : rows[i][c] = v})
        values == {rows[i][c] : i \in present}
        top == {v \in values : \A w \in values : count(w) <= count(v)}
        RECURSIVE sorted(_)
        sorted(k) ==
            IF k > Len(Alphabetical) THEN << >>
            ELSE (IF Alphabetical[k] \in top THEN <<Alphabetical[k]>> ELSE << >>) \o sorted(k + 1)
    IN  sorted(1)

\* The percentage of missing cabins above which the Cabin column is dropped.
CabinDropPct == 70

\* The comparison as it would be with >= for >.
cabin_null_pct_reaches(cabin_nulls, len) == cabin_nulls * 100 >= CabinDropPct * len

\* cabin_null_pct > 70, with cabin_null_pct = cabin_nulls / len * 100.
cabin_null_pct_exceeds(cabin_nulls, len) == cabin_nulls * 100 > CabinDropPct * len

\* DataFrame.drop(columns=[c]).
drop_column(df, c) ==
    [df EXCEPT !.columns = @ \ {c},
               !.rows = [i \in 1..Len(df.rows) |-> [df.rows[i] EXCEPT ![c] = Missing(c)]]]

\* Lines 106-110.
StepDuplicates(s) ==
    LET kept == drop_duplicates(s.df.rows)
    IN  [s EXCEPT !.df.rows = kept,
                  !.log.duplicates_removed = Len(s.df.rows) - Len(kept)]

\* Lines 112-117.
StepCategorical(s) ==
    LET conv(df, c) == IF c \in df.columns THEN astype_category(df, c) ELSE df
    IN  [s EXCEPT !.df = conv(conv(conv(s.df, "Pclass"), "Sex"), "Embarked")]

\* Lines 122-127.  groupby raises KeyError when Pclass or Sex is no column.
StepAge(s) ==
    IF s.raised # "" \/ "Age" \notin s.df.columns THEN s
    ELSE IF ~({"Pclass", "Sex"} \subseteq s.df.columns) THEN [s EXCEPT !.raised = "KeyError"]
    ELSE [s EXCEPT !.df = fillna(s.df, "Age",
                                 [i \in 1..Len(s.df.rows) |-> age_median(s.df.rows, i)]),
                   !.log.age_nulls = NullCount(s.df, "Age")]

\* Lines 129-135.  mode()[0] raises KeyError when every port is missing.
StepEmbarked(s) ==
    IF s.raised # "" \/ "Embarked" \notin s.df.columns THEN s
    ELSE IF NullCount(s.df, "Embarked") = 0 THEN s
    ELSE IF mode(s.df.rows, "Embarked") = << >> THEN [s EXCEPT !.raised = "KeyError"]
    ELSE [s EXCEPT !.df = fillna(s.df, "Embarked",
                                 [i \in 1..Len(s.df.rows) |-> mode(s.df.rows, "Embarked")[1]]),
                   !.log.embarked_nulls = NullCount(s.df, "Embarked")]

\* Lines 137-143.
StepCabin(s) ==
    IF s.raised # "" \/ "Cabin" \notin s.df.columns THEN s
    ELSE IF cabin_null_pct_exceeds(NullCount(s.df, "Cabin"), Len(s.df.rows))
         THEN [s EXCEPT !.df = drop_column(s.df, "Cabin"), !.log.cabin_dropped = TRUE]
    ELSE s

\* Lines 148-152.
StepFamily(s) ==
    IF s.raised # "" \/ ~({"SibSp", "Parch"} \subseteq s.df.columns) THEN s
    ELSE LET n == Len(s.df.rows)
             size == [i \in 1..n |-> s.df.rows[i].SibSp + s.df.rows[i].Parch + 1]
         IN  [s EXCEPT !.df = SetColumn(SetColumn(s.df, "FamilySize", size), "IsAlone",
                                        [i \in 1..n |-> IF size[i] = 1 THEN 1 ELSE 0])]

\* str.extract(" ([A-Za-z]+)\. "): a name is its tokens, each a word and the
\* mark that follows it; the title is the word of the first token that ends
\* in a period, follows a space and is followed by one.
extract_title(name) ==
    LET hits == {k \in 2..(Len(name) - 1) : name[k].punct = "."}
    IN  IF hits = {} THEN NaS
        ELSE name[CHOOSE k \in hits : \A h \in hits : k <= h].word

\* Titles borne by fewer passengers than this are grouped as "Rare".
RareBelow == 10

\* Lines 155-162.
StepTitle(s) ==
    IF s.raised # "" \/ "Name" \notin s.df.columns THEN s
    ELSE LET n == Len(s.df.rows)
             title == [i \in 1..n |-> extract_title(s.df.rows[i].Name)]
             title_counts(v) == Cardinality({i \in 1..n : title[i] = v})
             rare_titles == {title[i] : i \in {j \in 1..n : /\ title[j] # NaS
                                                          /\ title_counts(title[j]) < RareBelow}}
             replaced == [i \in 1..n |-> IF title[i] \in rare_titles THEN "Rare" ELSE title[i]]
         IN  [s EXCEPT !.df = astype_category(SetColumn(s.df, "Title", replaced), "Title")]

\* pd.cut's bins, in years, and labels.
AgeBins == <<0, 12, 18, 35, 60, 100>>

AgeLabels == <<"Child", "Teen", "Adult", "Middle-aged", "Senior">>

\* pd.cut(age, bins, labels) with right=True, include_lowest=False: the label
\* of the interval (bins[k], bins[k+1]] that holds the age, or missing.
\* The age is in half-years.
cut(age) ==
    LET hits == {k \in 1..Len(AgeLabels) : 2 * AgeBins[k] < age /\ age <= 2 * AgeBins[k + 1]}
    IN  IF age = NaN \/ hits = {} THEN NaS ELSE AgeLabels[CHOOSE k \in hits : TRUE]

\* Lines 165-169.
StepAgeGroup(s) ==
    IF s.raised # "" \/ "Age" \notin s.df.columns THEN s
    ELSE LET df == SetColumn(s.df, "AgeGroup",
                             [i \in 1..Len(s.df.rows) |-> cut(s.df.rows[i].Age)])
         IN  [s EXCEPT !.df = [df EXCEPT !.categories =
                                  ("AgeGroup" :> {AgeLabels[k] : k \in 1..Len(AgeLabels)}) @@ @]]

FareLabels == <<"Low", "Medium", "High", "Very High">>

\* Series.quantile(k / 4) of the sorted values s, times 4 (linear interpolation).
quantile4(s, k) ==
    LET pos == k * (Len(s) - 1)
        lo == pos \div 4
        r == pos % 4
    IN  IF r = 0 THEN 4 * s[lo + 1] ELSE (4 - r) * s[lo + 1] + r * s[lo + 2]

\* qcut's bin edges (times 4) of the fares present: five quantiles, or none
\* when there is no fare.
qcut_bins(rows) ==
    LET s == SortAsc(Collect(rows, "Fare", {i \in 1..Len(rows) : rows[i].Fare # NaN}, 1))
    IN  IF s = << >> THEN << >> ELSE [k \in 1..(Len(FareLabels) + 1) |-> quantile4(s, k - 1)]

\* qcut raises ValueError unless the bin edges are unique.
qcut_raises(bins) ==
    \/ bins = << >>
    \/ \E a, b \in 1..Len(bins) : a < b /\ bins[a] = bins[b]

\* The label of a fare: bins are closed on the right, the lowest edge included.
qcut_label(bins, fare) ==
    LET id == IF 4 * fare = bins[1] THEN 1
              ELSE Cardinality({k \in 1..Len(bins) : bins[k] < 4 * fare})
    IN  IF fare = NaN \/ id < 1 \/ id > Len(FareLabels) THEN NaS ELSE FareLabels[id]

\* Lines 172-176.
StepFareGroup(s) ==
    IF s.raised # "" \/ "Fare" \notin s.df.columns THEN s
    ELSE LET bins == qcut_bins(s.df.rows)
         IN  IF qcut_raises(bins) THEN [s EXCEPT !.raised = "ValueError"]
             ELSE LET df == SetColumn(s.df, "FareGroup",
                                      [i \in 1..Len(s.df.rows) |->
                                          qcut_label(bins, s.df.rows[i].Fare)])
                  IN  [s EXCEPT !.df = [df EXCEPT !.categories =
                          ("FareGroup" :> {FareLabels[k] : k \in 1..Len(FareLabels)}) @@ @]]

\* DataFrame.isnull().sum().sum(): the missing cells of the frame's columns.
isnull_sum(df) ==
    Cardinality({<<i, c>> \in (1..Len(df.rows)) \X df.columns : IsNull(c, df.rows[i][c])})

\* Lines 180-185.
StepFinalCheck(s) ==
    IF s.raised # "" THEN s ELSE [s EXCEPT !.log.remaining_nulls = isnull_sum(s.df)]

\* Lines 103-187: the frame clean_data leaves in self.df_clean, and how it ended.
clean_run(raw) ==
    StepFinalCheck(StepFareGroup(StepAgeGroup(StepTitle(StepFamily(StepCabin(
        StepEmbarked(StepAge(StepCategorical(StepDuplicates(
            [df |-> raw, raised |-> "", log |-> NoLog]))))))))))

\* ------------------------------------------------------------------------
\* The analyses
\* ------------------------------------------------------------------------

\* The rate of no records: NaN.
NaNRate == [nan |-> TRUE, num |-> 0, den |-> 1]

\* mean100 as it would be with 0 for the rate of no records.
mean100_or_zero(sum, count) ==
    [nan |-> FALSE, num |-> 100 * sum, den |-> IF count = 0 THEN 1 ELSE count]

\* Series.mean() * 100 of a 0/1 column: sum / count * 100, NaN of no values.
mean100(sum, count) ==
    IF count = 0 THEN NaNRate ELSE [nan |-> FALSE, num |-> 100 * sum, den |-> count]

\* ["Survived"].mean() * 100 over the rows at the positions idx.
survival_mean(rows, idx) ==
    LET valid == {i \in idx : rows[i].Survived # NaN}
    IN  mean100(Cardinality({i \in valid : rows[i].Survived = 1}), Cardinality(valid))

\* The group keys of groupby(c): the categories of a categorical column,
\* the values present of any other.
group_keys(df, c) ==
    IF c \in DOMAIN df.categories THEN df.categories[c]
    ELSE {df.rows[i][c] : i \in {j \in 1..Len(df.rows) : ~IsNull(c, df.rows[j][c])}}

\* groupby(feature)["Survived"].agg(["count", "sum", "mean"]), the mean times 100.
survival_by_feature(df, feature) ==
    [v \in group_keys(df, feature) |->
        LET members == {i \in 1..Len(df.rows) : df.rows[i][feature] = v}
            valid == {i \in members : df.rows[i].Survived # NaN}
        IN  [Total |-> Cardinality(valid),
             Survived_Count |-> Cardinality({i \in valid : df.rows[i].Survived = 1}),
             Survival_Rate |-> survival_mean(df.rows, members)]]

categorical_features == {"Sex", "Pclass", "Embarked", "AgeGroup", "Title"}

\* Lines 203-218: the dictionary analyze_survival_patterns returns.
survival_analysis(df) ==
    [feature \in categorical_features \cap df.columns |-> survival_by_feature(df, feature)]

\* rate > 0, false of NaN.
positive(rate) == ~rate.nan /\ rate.num > 0

\* Lines 407-434: the list of insights, each its topic and its rates.
insights(df) ==
    LET n == Len(df.rows)
        rows == df.rows
        sel(c, v) == {i \in 1..n : rows[i][c] = v}
        med2 == median2(Collect(rows, "Fare", {i \in 1..n : rows[i].Fare # NaN}, 1))
        child == IF "Child" \in group_keys(df, "AgeGroup")
                 THEN survival_mean(rows, sel("AgeGroup", "Child")) ELSE mean100(0, 1)
    IN  <<[topic |-> "sex", rates |-> <<survival_mean(rows, sel("Sex", "female")),
                                         survival_mean(rows, sel("Sex", "male"))>>],
          [topic |-> "class", rates |-> <<survival_mean(rows, sel("Pclass", 1)),
                                           survival_mean(rows, sel("Pclass", 3))>>]>>
        \o (IF "AgeGroup" \in df.columns /\ positive(child)
            THEN <<[topic |-> "child", rates |-> <<child>>]>> ELSE << >>)
        \o (IF "IsAlone" \in df.columns
            THEN <<[topic |-> "family", rates |-> <<survival_mean(rows, sel("IsAlone", 0)),
                                                     survival_mean(rows, sel("IsAlone", 1))>>]>>
            ELSE << >>)
        \o <<[topic |-> "fare",
              rates |-> <<survival_mean(rows, {i \in 1..n : rows[i].Fare # NaN
                                                             /\ 2 * rows[i].Fare > med2}),
                          survival_mean(rows, {i \in 1..n : rows[i].Fare # NaN
                                                             /\ 2 * rows[i].Fare <= med2})>>]>>

\* generate_insights raises KeyError when a column it reads is absent, or
\* when class_survival has no entry for class 1 or class 3.
insights_raise(df) ==
    \/ ~({"Survived", "Sex", "Pclass", "Fare", "Age"} \subseteq df.columns)
    \/ ~({1, 3} \subseteq group_keys(df, "Pclass"))

\* create_visualizations raises when a column it plots is absent (KeyError),
\* or when the pie chart's two labels meet a single survival outcome.
visualizations_raise(df) ==
    \/ ~({"Survived", "Sex", "Pclass", "Age", "Fare", "Embarked"} \subseteq df.columns)
    \/ Cardinality({df.rows[i].Survived : i \in 1..Len(df.rows)}) # 2

\* ------------------------------------------------------------------------
\* State
\* ------------------------------------------------------------------------

VARIABLES
    files,      \* the file system: path -> what is stored there
    df,         \* self.df: None, or the raw record set
    df_clean,   \* self.df_clean: None, or the cleaned record set
    done,       \* the operations that have returned their result so far
    ret         \* the last call: [op, outcome, value]

vars == <<files, df, df_clean, done, ret>>

None == [kind |-> "None"]

\* self.data_path, and another path a caller may save to.
data_path == "data_path"

Paths == {data_path, "output_path"}

NoFile == [kind |-> "absent"]

Garbled == [kind |-> "garbled"]

CsvFile(csv) == [kind |-> "csv", csv |-> csv]

Call(op, outcome, value) == [op |-> op, outcome |-> outcome, value |-> value]

\* ------------------------------------------------------------------------
\* Operations
\* ------------------------------------------------------------------------

\* Lines 44-55.
load_data ==
    /\ IF files[data_path].kind = "csv"
       THEN LET loaded == read_csv(files[data_path].csv)
            IN  /\ df' = loaded
                /\ done' = done \cup {"load_data"}
                /\ ret' = Call("load_data", "returned",
                               <<Len(loaded.rows), Cardinality(loaded.columns)>>)
       ELSE /\ UNCHANGED <<df, done>>
            /\ ret' = Call("load_data",
                           IF files[data_path].kind = "absent" THEN "NotFound" ELSE "LoadError",
                           None)
    /\ UNCHANGED <<files, df_clean>>

\* Lines 57-86.
explore_data_structure ==
    /\ ret' = IF df = None
              THEN Call("explore_data_structure", "MissingPrecondition", "load_data")
              ELSE Call("explore_data_structure", "returned",
                        [c \in df.columns |-> NullCount(df, c)])
    /\ UNCHANGED <<files, df, df_clean, done>>

\* Lines 88-187.
clean_data ==
    /\ IF df = None
       THEN /\ ret' = Call("clean_data", "MissingPrecondition", "load_data")
            /\ UNCHANGED <<df_clean, done>>
       ELSE LET run == clean_run(df)
            IN  /\ df_clean' = run.df
                /\ done' = IF run.raised = "" THEN done \cup {"clean_data"} ELSE done
                /\ ret' = Call("clean_data",
                               IF run.raised = "" THEN "returned" ELSE "raised",
                               [log |-> run.log, error |-> run.raised])
    /\ UNCHANGED <<files, df>>

\* analyze_survival_patterns as it would be if it scaled the survival flag to
\* a percentage in the cleaned record set itself, not in the table it returns.
analyze_survival_patterns_scaling_in_place ==
    /\ IF df_clean = None
       THEN /\ ret' = Call("analyze_survival_patterns", "MissingPrecondition", "clean_data")
            /\ UNCHANGED df_clean
       ELSE IF "Survived" \notin df_clean.columns
       THEN /\ ret' = Call("analyze_survival_patterns", "raised", "KeyError")
            /\ UNCHANGED df_clean
       ELSE /\ ret' = Call("analyze_survival_patterns", "returned", survival_analysis(df_clean))
            /\ df_clean' = [df_clean EXCEPT !.rows =
                               [i \in 1..Len(df_clean.rows) |->
                                   [df_clean.rows[i] EXCEPT !.Survived = 100 * @]]]
    /\ UNCHANGED <<files, df, done>>

\* Lines 189-218.
analyze_survival_patterns ==
    /\ ret' = IF df_clean = None
              THEN Call("analyze_survival_patterns", "MissingPrecondition", "clean_data")
              ELSE IF "Survived" \notin df_clean.columns
              THEN Call("analyze_survival_patterns", "raised", "KeyError")
              ELSE Call("analyze_survival_patterns", "returned", survival_analysis(df_clean))
    /\ UNCHANGED <<files, df, df_clean, done>>

\* Lines 220-395.  The figure and its image file are not part of the state.
create_visualizations ==
    /\ ret' = IF df_clean = None
              THEN Call("create_visualizations", "MissingPrecondition", "clean_data")
              ELSE IF visualizations_raise(df_clean)
              THEN Call("create_visualizations", "raised", "Error")
              ELSE Call("create_visualizations", "returned", "fig")
    /\ UNCHANGED <<files, df, df_clean, done>>

\* Lines 397-448.
generate_insights ==
    /\ ret' = IF df_clean = None
              THEN Call("generate_insights", "MissingPrecondition", "clean_data")
              ELSE IF insights_raise(df_clean)
              THEN Call("generate_insights", "raised", "KeyError")
              ELSE Call("generate_insights", "returned", insights(df_clean))
    /\ UNCHANGED <<files, df, df_clean, done>>

\* Lines 450-460.  to_csv may fail (an unwritable path); the error is printed.
save_cleaned_data ==
    \E output_path \in Paths, written \in BOOLEAN :
        /\ IF df_clean = None
           THEN /\ ret' = Call("save_cleaned_data", "MissingPrecondition", "clean_data")
                /\ UNCHANGED files
           ELSE IF written
           THEN /\ files' = [files EXCEPT ![output_path] = CsvFile(to_csv(df_clean))]
                /\ ret' = Call("save_cleaned_data", "returned", output_path)
           ELSE /\ ret' = Call("save_cleaned_data", "SaveError", output_path)
                /\ UNCHANGED files
        /\ UNCHANGED <<df, df_clean, done>>

Next ==
    \/ load_data
    \/ explore_data_structure
    \/ clean_data
    \/ analyze_survival_patterns
    \/ create_visualizations
    \/ generate_insights
    \/ save_cleaned_data

\* Lines 33-42: the analyzer as constructed, on a file system holding input.
Constructed(input) ==
    /\ files = [p \in Paths |-> IF p = data_path THEN input ELSE NoFile]
    /\ df = None
    /\ df_clean = None
    /\ done = {}
    /\ ret = Call("__init__", "returned", None)

\* ------------------------------------------------------------------------
\* Input files
\* ------------------------------------------------------------------------

Name(title) ==
    <<[word |-> "Braund", punct |-> ","], [word |-> title, punct |-> "."],
      [word |-> "Owen", punct |-> ""]>>

\* A raw row; the derived columns are absent.
Passenger(id, survived, pclass, sex, age, fare, cabin, embarked) ==
    [PassengerId |-> id, Survived |-> survived, Pclass |-> pclass,
     Name |-> Name(IF sex = "male" THEN "Mr" ELSE "Mrs"), Sex |-> sex, Age |-> age,
     SibSp |-> id % 2, Parch |-> 0, Fare |-> fare, Cabin |-> cabin, Embarked |-> embarked,
     FamilySize |-> NaN, IsAlone |-> NaN, Title |-> NaS, AgeGroup |-> NaS, FareGroup |-> NaS]

\* The sequences of n indices into 1..k that never decrease: one file for
\* each choice of rows, whatever their order (no step of the analyzer reads
\* the order of the rows).
NonDecreasing(n, k) == {f \in [1..n -> 1..k] : \A i \in 1..(n - 1) : f[i] <= f[i + 1]}

RawFile(rows) == CsvFile([columns |-> RawColumns, rows |-> rows])

\* What a row holds where a family of files does not vary it: each row its
\* own identifier and fare, the survivors and the classes alternating.
Usual(i, pclass, sex, age, cabin, embarked) ==
    Passenger(i, i % 2, pclass, sex, age, 10 * i, cabin, embarked)

NoInput == {NoFile, Garbled}

\* --- Files whose rows differ in class, sex and age ---

MaxAgeRows == 3

\* <<class, sex, age in half-years>>: missing, 20 and 50 years.
AgeKinds ==
    <<<<1, "male", NaN>>, <<1, "male", 40>>, <<1, "male", 100>>,
      <<1, "female", NaN>>, <<1, "female", 100>>,
      <<3, "male", NaN>>, <<3, "male", 40>>>>

AgeRows(n, f) == [i \in 1..n |-> Usual(i, AgeKinds[f[i]][1], AgeKinds[f[i]][2],
                                       AgeKinds[f[i]][3], "C85", "S")]

\* ... and the same files with their last row repeated.
AgeFiles ==
    UNION {{RawFile(AgeRows(n, f)) : f \in NonDecreasing(n, Len(AgeKinds))}
           : n \in 1..MaxAgeRows}
    \cup {RawFile(Append(AgeRows(MaxAgeRows, f), AgeRows(MaxAgeRows, f)[MaxAgeRows]))
          : f \in NonDecreasing(MaxAgeRows, Len(AgeKinds))}

InitAge == \E input \in AgeFiles \cup NoInput : Constructed(input)

SpecAge == InitAge /\ [][Next]_vars

\* --- Files whose rows differ in embarkation port ---

MaxPortRows == 4

PortKinds == <<NaS, "S", "C">>

\* In every order: the order of the rows is the order the ports are met in.
PortFiles ==
    UNION {{RawFile([i \in 1..n |-> Usual(i, 1 + 2 * (i % 2), "male", 60, "C85", PortKinds[f[i]])])
            : f \in [1..n -> 1..Len(PortKinds)]} : n \in 1..MaxPortRows}

InitPort == \E input \in PortFiles \cup NoInput : Constructed(input)

SpecPort == InitPort /\ [][Next]_vars

\* --- Files whose first k rows have no cabin ---

MaxCabinRows == 10

CabinFiles ==
    UNION {{RawFile([i \in 1..n |-> Usual(i, 1 + 2 * (i % 2), "male", 60,
                                          IF i <= k THEN NaS ELSE "C85", "S")])
            : k \in 0..n} : n \in 1..MaxCabinRows}

InitCabin == \E input \in CabinFiles \cup NoInput : Constructed(input)

SpecCabin == InitCabin /\ [][Next]_vars

\* --- Files of two rows whose ages lie at the edges of the age groups ---

\* Half-years: 0, 0.5, 12, 12.5, 18, 18.5, 35, 35.5, 60, 60.5, 100 years.
EdgeAges == <<0, 1, 24, 25, 36, 37, 70, 71, 120, 121, 200>>

AgeGroupFiles ==
    {RawFile([i \in 1..2 |-> Usual(i, 1 + 2 * (i % 2), "male", EdgeAges[f[i]], "C85", "S")])
     : f \in NonDecreasing(2, Len(EdgeAges))}

InitAgeGroup == \E input \in AgeGroupFiles \cup NoInput : Constructed(input)

SpecAgeGroup == InitAgeGroup /\ [][Next]_vars

\* --- Files whose rows differ in fare ---

MaxFareRows == 4

FareKinds == <<10, 20, 30, 40>>

FareFiles ==
    UNION {{RawFile([i \in 1..n |-> Passenger(i, i % 2, 1 + 2 * (i % 2), "male", 60,
                                              FareKinds[f[i]], "C85", "S")])
            : f \in NonDecreasing(n, Len(FareKinds))} : n \in 1..MaxFareRows}

InitFare == \E input \in FareFiles \cup NoInput : Constructed(input)

SpecFare == InitFare /\ [][Next]_vars

\* --- Files whose rows differ in sex and survival ---

MaxSurvivalRows == 6

SurvivalKinds == <<<<"female", 0>>, <<"female", 1>>, <<"male", 0>>, <<"male", 1>>>>

\* The ages run 10, 20, 30, ... years down the file.
SurvivalFiles ==
    UNION {{RawFile([i \in 1..n |-> Passenger(i, SurvivalKinds[f[i]][2], 1 + 2 * (i % 2),
                                              SurvivalKinds[f[i]][1], 20 * i, 10 * i,
                                              "C85", "S")])
            : f \in NonDecreasing(n, Len(SurvivalKinds))} : n \in 1..MaxSurvivalRows}

InitSurvival == \E input \in SurvivalFiles \cup NoInput : Constructed(input)

SpecSurvival == InitSurvival /\ [][Next]_vars

\* --- Files in which one passenger may be recorded more than once, with or
\* --- without the age (20 years) ---

MaxRecleanRows == 4

\* The identifiers down a file: each row that of the row before, or the next.
Identifiers(n) ==
    {f \in NonDecreasing(n, n) : f[1] = 1 /\ \A i \in 1..(n - 1) : f[i + 1] <= f[i] + 1}

RecleanFiles ==
    UNION {{RawFile([i \in 1..n |-> Passenger(id[i], id[i] % 2, 1, "male", a[i],
                                              10 * id[i], "C85", "S")])
            : id \in Identifiers(n), a \in [1..n -> {NaN, 40}]} : n \in 1..MaxRecleanRows}

InitReclean == \E input \in RecleanFiles \cup NoInput : Constructed(input)

SpecReclean == InitReclean /\ [][Next]_vars

\* --- One table, with every choice of optional columns left out ---

OptionalColumns ==
    {"Pclass", "Sex", "Embarked", "Age", "Cabin", "SibSp", "Parch", "Name", "Fare"}

Table ==
    <<Passenger(1, 1, 1, "female", 60, 10, "C85", "C"),
      Passenger(2, 0, 3, "male", NaN, 20, NaS, "S"),
      Passenger(3, 0, 3, "male", 44, 30, NaS, "S"),
      Passenger(4, 1, 1, "female", NaN, 40, NaS, NaS)>>

\* The table without the columns of absent.
Without(rows, absent) ==
    [columns |-> RawColumns \ absent,
     rows |-> [i \in 1..Len(rows) |->
                 [c \in AllColumns |-> IF c \in absent THEN Missing(c) ELSE rows[i][c]]]]

ColumnFiles == {CsvFile(Without(Table, absent)) : absent \in SUBSET OptionalColumns}

InitColumns == \E input \in ColumnFiles \cup NoInput : Constructed(input)

SpecColumns == InitColumns /\ [][Next]_vars

\* ------------------------------------------------------------------------
\* What the claims speak of
\* ------------------------------------------------------------------------

\* The call that has just returned or raised was a clean_data that got past
\* its guard: df is what it cleaned, df_clean what it left.
Cleaned == ret.op = "clean_data" /\ ret.outcome # "MissingPrecondition"

\* The positions of the rows that are the first of their content.
Firsts(rows) == {i \in 1..Len(rows) : \A j \in 1..(i - 1) : rows[j] # rows[i]}

\* The place among the first occurrences of the first occurrence at position i.
PlaceOf(rows, i) == Cardinality({j \in Firsts(rows) : j <= i})

\* Each deduplicated raw row has its cleaned row, in the same order.
RowForRow == Len(df_clean.rows) = Cardinality(Firsts(df.rows))

\* The k-th smallest of the values val[j], j in idx.
Kth(val, idx, k) ==
    CHOOSE v \in {val[j] : j \in idx} :
        /\ Cardinality({j \in idx : val[j] < v}) < k
        /\ k <= Cardinality({j \in idx : val[j] <= v})

\* The positions of the deduplicated raw rows of the (class, sex) pair of row
\* i whose age is known.
KnownAgesOfGroup(i) ==
    {j \in Firsts(df.rows) : /\ df.rows[j].Pclass = df.rows[i].Pclass
                             /\ df.rows[j].Sex = df.rows[i].Sex
                             /\ df.rows[j].Age # NaN}

\* age is the median of the known ages of the group of row i (all in
\* half-years): twice the median is the sum of the two middle values.
IsGroupMedian(age, i) ==
    LET known == KnownAgesOfGroup(i)
        n == Cardinality(known)
        val == [j \in known |-> df.rows[j].Age]
    IN  IF n = 0 THEN age = NaN
        ELSE 2 * age = Kth(val, known, (n + 1) \div 2) + Kth(val, known, (n + 2) \div 2)

\* ------------------------------------------------------------------------
\* C1
\* ------------------------------------------------------------------------

AnalysedFields == {"Sex", "Pclass", "Embarked", "Age", "Fare", "Survived"}

\* C1: after clean_data completes on a loaded record set, no record of the
\* cleaned set has a missing sex, class, embarkation port, age, fare or
\* survival flag.
C1_NoMissingAfterCleaning ==
    (ret.op = "clean_data" /\ ret.outcome = "returned") =>
        \A i \in 1..Len(df_clean.rows) : \A c \in AnalysedFields : df_clean.rows[i][c] # Missing(c)

\* ------------------------------------------------------------------------
\* C2
\* ------------------------------------------------------------------------

NeedLoad == {"explore_data_structure", "clean_data"}

NeedClean ==
    {"analyze_survival_patterns", "create_visualizations", "generate_insights",
     "save_cleaned_data"}

\* C2: a call of explore_data_structure or clean_data made before load_data
\* has completed successfully, and a call of analyze_survival_patterns,
\* create_visualizations, generate_insights or save_cleaned_data made before
\* clean_data has completed successfully, reports the missing precondition
\* and leaves the raw and the cleaned record set as they were.
C2_PreconditionsChecked ==
    [][(\/ ret'.op \in NeedLoad /\ "load_data" \notin done
        \/ ret'.op \in NeedClean /\ "clean_data" \notin done)
       => (ret'.outcome = "MissingPrecondition" /\ df' = df /\ df_clean' = df_clean)]_vars

\* ------------------------------------------------------------------------
\* C3
\* ------------------------------------------------------------------------

\* C3: clean_data gives every record whose age is missing the median of the
\* known ages of the deduplicated records of its (class, sex) pair (it stays
\* missing when the pair has none), and leaves every known age as it is; a
\* pair with one known age gives that age to its other members.
C3_AgeImputation ==
    (Cleaned /\ {"Age", "Pclass", "Sex"} \subseteq df.columns) =>
        /\ RowForRow
        /\ \A i \in Firsts(df.rows) :
              LET age == df_clean.rows[PlaceOf(df.rows, i)].Age
              IN  /\ df.rows[i].Age # NaN => age = df.rows[i].Age
                  /\ df.rows[i].Age = NaN => IsGroupMedian(age, i)
                  /\ \A j \in KnownAgesOfGroup(i) :
                        KnownAgesOfGroup(i) = {j} => age = df.rows[j].Age

\* A file with a repeated row has been cleaned, and a missing age has become
\* 35 years, the median of 20 and 50 years, which no record of the file had.
C3_Witness ==
    /\ Cleaned
    /\ Cardinality(Firsts(df.rows)) < Len(df.rows)
    /\ \E i \in Firsts(df.rows) :
          /\ df.rows[i].Age = NaN
          /\ df_clean.rows[PlaceOf(df.rows, i)].Age = 70
          /\ Cardinality(KnownAgesOfGroup(i)) = 2

\* ------------------------------------------------------------------------
\* C4
\* ------------------------------------------------------------------------

SortedPorts == <<"C", "Q", "S">>

\* The number of deduplicated raw rows whose port is p.
PortCount(p) == Cardinality({j \in Firsts(df.rows) : df.rows[j].Embarked = p})

\* p is the most frequent known port, and of the most frequent ones the
\* first in sorted order.
IsModePort(p) ==
    \E k \in 1..Len(SortedPorts) :
        /\ SortedPorts[k] = p
        /\ PortCount(p) > 0
        /\ \A h \in 1..Len(SortedPorts) :
              /\ PortCount(SortedPorts[h]) <= PortCount(p)
              /\ h < k => PortCount(SortedPorts[h]) < PortCount(p)

CabinNulls == Cardinality({j \in Firsts(df.rows) : df.rows[j].Cabin = NaS})

\* C5: clean_data removes the Cabin column exactly when more than 70% of the
\* (deduplicated) records have no cabin, and otherwise keeps every cabin as
\* it is.
C5_CabinDrop ==
    (Cleaned /\ {"Age", "Pclass", "Sex", "Embarked", "Cabin"} \subseteq df.columns
             /\ ret.value.error # "KeyError") =>
        /\ RowForRow
        /\ "Cabin" \notin df_clean.columns
              <=> 100 * CabinNulls > 70 * Cardinality(Firsts(df.rows))
        /\ "Cabin" \in df_clean.columns =>
              \A i \in Firsts(df.rows) :
                  df_clean.rows[PlaceOf(df.rows, i)].Cabin = df.rows[i].Cabin

\* Ten records, seven of them without a cabin (exactly 70%), have been
\* cleaned and the Cabin column is still there.
C5_Witness ==
    /\ Cleaned
    /\ Cardinality(Firsts(df.rows)) = 10
    /\ CabinNulls = 7
    /\ "Cabin" \in df_clean.columns

\* ------------------------------------------------------------------------
\* C6
\* ------------------------------------------------------------------------

\* The age group of an age of 0 to 100 years (in half-years): Child [0, 12],
\* Teen (12, 18], Adult (18, 35], Middle-aged (35, 60], Senior (60, 100].
GroupOfAge(age) ==
    IF age <= 24 THEN "Child"
    ELSE IF age <= 36 THEN "Teen"
    ELSE IF age <= 70 THEN "Adult"
    ELSE IF age <= 120 THEN "Middle-aged"
    ELSE "Senior"

\* C6: every cleaned record with an age of 0 to 100 years has the age group
\* of its age, the age 0 being a Child's and each upper bound belonging to
\* the lower group.
C6_AgeGroups ==
    (Cleaned /\ {"Age", "Pclass", "Sex"} \subseteq df.columns) =>
        \A i \in 1..Len(df_clean.rows) :
            LET age == df_clean.rows[i].Age
            IN  (0 <= age /\ age <= 200) => df_clean.rows[i].AgeGroup = GroupOfAge(age)

\* ------------------------------------------------------------------------
\* C7
\* ------------------------------------------------------------------------

FareRank(label) == CHOOSE k \in 1..4 : <<"Low", "Medium", "High", "Very High">>[k] = label

\* C7: clean_data gives every record of a record set with a fare column a
\* fare group of Low, Medium, High, Very High; a record with a higher fare
\* never has a lower group than one with a lower fare; four records with
\* four fares have the four groups.
C7_FareGroups ==
    (Cleaned /\ "Fare" \in df.columns) =>
        LET rows == df_clean.rows
            n == Len(rows)
        IN  /\ "FareGroup" \in df_clean.columns
            /\ \A i \in 1..n : rows[i].FareGroup \in {"Low", "Medium", "High", "Very High"}
            /\ \A i, j \in 1..n :
                  rows[i].Fare < rows[j].Fare
                      => FareRank(rows[i].FareGroup) <= FareRank(rows[j].FareGroup)
            /\ (n = 4 /\ Cardinality({rows[i].Fare : i \in 1..n}) = 4)
                  => {rows[i].FareGroup : i \in 1..n} = {"Low", "Medium", "High", "Very High"}

\* ------------------------------------------------------------------------
\* C8
\* ------------------------------------------------------------------------

\* a / b = c / d, of fractions.
SameFraction(a, b, c, d) == a * d = c * b

\* C8: analyze_survival_patterns returns, for each of the features Sex,
\* Pclass, Embarked, AgeGroup and Title the cleaned set has, a row for each
\* category value, with Total the number of cleaned records of that value,
\* Survived_Count the number of them that survived and Survival_Rate
\* Survived_Count / Total * 100; the rate of a value without records is NaN.
C8_SurvivalTable ==
    (ret.op = "analyze_survival_patterns" /\ ret.outcome = "returned") =>
        LET rows == df_clean.rows
            n == Len(rows)
        IN  /\ DOMAIN ret.value =
                  {"Sex", "Pclass", "Embarked", "AgeGroup", "Title"} \cap df_clean.columns
            /\ \A f \in DOMAIN ret.value :
                  /\ \A i \in 1..n : rows[i][f] # Missing(f) => rows[i][f] \in DOMAIN ret.value[f]
                  /\ \A v \in DOMAIN ret.value[f] :
                        LET row == ret.value[f][v]
                            total == Cardinality({i \in 1..n : rows[i][f] = v})
                            survivors == Cardinality({i \in 1..n : rows[i][f] = v
                                                                     /\ rows[i].Survived = 1})
                        IN  /\ row.Total = total
                            /\ row.Survived_Count = survivors
                            /\ IF total = 0 THEN row.Survival_Rate.nan
                               ELSE /\ ~row.Survival_Rate.nan
                                    /\ SameFraction(row.Survival_Rate.num, row.Survival_Rate.den,
                                                    100 * survivors, total)

\* Three women, two of them survivors, and three men, one of them a
\* survivor, have been analysed: the rates are 200/3 and 100/3, and the age
\* group Senior, which has no record, has the rate NaN.
C8_Witness ==
    /\ ret.op = "analyze_survival_patterns" /\ ret.outcome = "returned"
    /\ {"Sex", "AgeGroup"} \subseteq DOMAIN ret.value
    /\ {"female", "male"} \subseteq DOMAIN ret.value.Sex
    /\ ret.value.Sex["female"].Total = 3 /\ ret.value.Sex["female"].Survived_Count = 2
    /\ SameFraction(ret.value.Sex["female"].Survival_Rate.num,
                    ret.value.Sex["female"].Survival_Rate.den, 200, 3)
    /\ ret.value.Sex["male"].Total = 3 /\ ret.value.Sex["male"].Survived_Count = 1
    /\ SameFraction(ret.value.Sex["male"].Survival_Rate.num,
                    ret.value.Sex["male"].Survival_Rate.den, 100, 3)
    /\ ret.value.AgeGroup["Senior"].Total = 0
    /\ ret.value.AgeGroup["Senior"].Survival_Rate.nan

\* ------------------------------------------------------------------------
\* C9
\* ------------------------------------------------------------------------

\* The loaded record set is one the Cleaner wrote (it has the derived
\* columns; the input files have none) and has no missing value.
RecleanOfOutput ==
    /\ Cleaned
    /\ DerivedColumns \subseteq df.columns
    /\ \A i \in 1..Len(df.rows) : \A c \in df.columns : df.rows[i][c] # Missing(c)

\* No row removed, no age and no port filled, and the same columns and cells.
NothingDone ==
    /\ ret.value.log.duplicates_removed = 0
    /\ ret.value.log.age_nulls = 0
    /\ ret.value.log.embarked_nulls = 0
    /\ df_clean.columns = df.columns
    /\ df_clean.rows = df.rows

\* C9: cleaning a record set that is the output of the Cleaner and has no
\* missing value fills no age and no port, removes no row and yields the
\* record set it was given.
C9_Idempotent == RecleanOfOutput => NothingDone

\* C9, amended: ... and has no two identical records ...
C9_IdempotentWithoutDuplicates ==
    (RecleanOfOutput /\ Firsts(df.rows) = 1..Len(df.rows)) => NothingDone

\* An output of the Cleaner of four records, none missing a value and no two
\* identical, has been loaded and cleaned again.
C9_Witness ==
    /\ RecleanOfOutput
    /\ Firsts(df.rows) = 1..Len(df.rows)
    /\ Len(df.rows) = 4
    /\ ret.outcome = "returned"

\* ------------------------------------------------------------------------
\* C10
\* ------------------------------------------------------------------------

\* C10: whichever optional columns the loaded record set lacks, clean_data
\* completes, having skipped the steps that need a column that is absent and
\* applied the others.
C10_OptionalColumns ==
    Cleaned =>
        /\ ret.outcome = "returned"
        /\ "FamilySize" \in df_clean.columns <=> {"SibSp", "Parch"} \subseteq df.columns
        /\ "IsAlone" \in df_clean.columns <=> {"SibSp", "Parch"} \subseteq df.columns
        /\ "Title" \in df_clean.columns <=> "Name" \in df.columns
        /\ "AgeGroup" \in df_clean.columns <=> "Age" \in df.columns
        /\ "FareGroup" \in df_clean.columns <=> "Fare" \in df.columns

\* ------------------------------------------------------------------------
\* C11
\* ------------------------------------------------------------------------

ReadOnly ==
    {"analyze_survival_patterns", "create_visualizations", "generate_insights",
     "save_cleaned_data"}

\* C11: once clean_data has produced the cleaned record set, a call of
\* analyze_survival_patterns, create_visualizations, generate_insights or
\* save_cleaned_data, whatever its outcome, leaves the cleaned record set and
\* the raw record set as they were; so does any sequence of such calls.
C11_AnalysesChangeNothing ==
    [][("clean_data" \in done /\ ret'.op \in ReadOnly)
       => (df_clean' = df_clean /\ df' = df)]_vars

\* The cleaned record set has been saved over the input file itself: the
\* file now holds the cleaned records, and the raw record set in memory is
\* still the one that was loaded, a record shorter than the cleaned one in
\* columns and different from it.
C11_Witness ==
    /\ "clean_data" \in done
    /\ ret.op = "save_cleaned_data" /\ ret.outcome = "returned" /\ ret.value = data_path
    /\ files[data_path] = CsvFile(to_csv(df_clean))
    /\ df # None /\ df.columns = RawColumns /\ Len(df.rows) = 3
    /\ df_clean.columns # df.columns
    /\ files[data_path] # CsvFile(to_csv(df))

\* ------------------------------------------------------------------------
\* C12
\* ------------------------------------------------------------------------

\* The positions of the cleaned records that satisfy Member.
Group(Member(_)) == {i \in 1..Len(df_clean.rows) : Member(df_clean.rows[i])}

\* rate is the mean of the survival flag over the records at idx, times 100
\* (NaN where idx is empty).
IsRateOf(rate, idx) ==
    LET survivors == Cardinality({i \in idx : df_clean.rows[i].Survived = 1})
    IN  IF idx = {} THEN rate.nan
        ELSE ~rate.nan /\ SameFraction(rate.num, rate.den, 100 * survivors, Cardinality(idx))

\* Twice the median fare of the cleaned records.
TwiceMedianFare ==
    LET n == Len(df_clean.rows)
        fares == SortAsc([i \in 1..n |-> df_clean.rows[i].Fare])
    IN  IF n % 2 = 1 THEN 2 * fares[(n + 1) \div 2]
        ELSE fares[n \div 2] + fares[n \div 2 + 1]

IsFemale(r) == r.Sex = "female"

IsMale(r) == r.Sex = "male"

IsFirstClass(r) == r.Pclass = 1

IsThirdClass(r) == r.Pclass = 3

IsChild(r) == r.AgeGroup = "Child"

IsWithFamily(r) == r.IsAlone = 0

IsSolo(r) == r.IsAlone = 1

IsHighFare(r) == 2 * r.Fare > TwiceMedianFare

IsLowFare(r) == 2 * r.Fare <= TwiceMedianFare

\* The rates of the statistic of a topic are those of its groups, in the
\* order the insight names them.
RatesOfTopic(s) ==
    CASE s.topic = "sex" ->
            /\ Len(s.rates) = 2
            /\ IsRateOf(s.rates[1], Group(IsFemale)) /\ IsRateOf(s.rates[2], Group(IsMale))
      [] s.topic = "class" ->
            /\ Len(s.rates) = 2
            /\ IsRateOf(s.rates[1], Group(IsFirstClass))
            /\ IsRateOf(s.rates[2], Group(IsThirdClass))
      [] s.topic = "child" ->
            Len(s.rates) = 1 /\ IsRateOf(s.rates[1], Group(IsChild))
      [] s.topic = "family" ->
            /\ Len(s.rates) = 2
            /\ IsRateOf(s.rates[1], Group(IsWithFamily)) /\ IsRateOf(s.rates[2], Group(IsSolo))
      [] s.topic = "fare" ->
            /\ Len(s.rates) = 2
            /\ IsRateOf(s.rates[1], Group(IsHighFare)) /\ IsRateOf(s.rates[2], Group(IsLowFare))
      [] OTHER -> FALSE

\* C12: for every cleaned record set, generate_insights returns the same
\* five statistics, in order: the survival rate by sex, by class (1st and
\* 3rd), of the age group Child, by with-family or alone, and by above or
\* at-most the median fare; each rate is the mean of the survival flag over
\* its group times 100, and none is left out for the values of the data.
C12_FiveInsights ==
    ("clean_data" \in done /\ ret.op = "generate_insights") =>
        /\ ret.outcome = "returned"
        /\ [i \in 1..Len(ret.value) |-> ret.value[i].topic]
               = <<"sex", "class", "child", "family", "fare">>
        /\ \A i \in 1..Len(ret.value) : RatesOfTopic(ret.value[i])

====
